---- MODULE Spec2Model ----
(***************************************************************************)
(* Model of cleanup-photo-library.py: project discovery, the dot-file and  *)
(* edit-stage sweeps, hardlink deduplication of selects, the permission    *)
(* pass and the orchestration of a library run.                            *)
(*                                                                         *)
(* A file name is a sequence of one-character strings, a path a sequence   *)
(* of names relative to the library root (<<>> is the library root).       *)
(* The file system is a pair (tree, inodes): tree maps each existing path  *)
(* to a directory entry, inodes maps each storage unit to its content and  *)
(* st_mode.  Two paths share storage iff their entries name one inode.     *)
(***************************************************************************)
EXTENDS Integers, Sequences, FiniteSets, TLC

VARIABLES
    tree,               \* path -> [kind, ino]
    inodes,             \* ino -> [content, mode]
    fs0,                \* the file system as it was when this run started
    args,               \* the command-line flags of this run
    pc,                 \* position of the run
    can_use_hardlinks,  \* cleanup_photo_library's local
    projects,           \* what find_projects returned
    rest,               \* projects still to be cleaned, in order
    cur,                \* project_path of the project being cleaned
    todo,               \* entries the current loop has still to visit
    select_path,        \* the select hardlink_select_files is replacing
    raw_path_set,       \* set_files_permissions' local
    log,                \* lines printed by the stages of this run
    ops,                \* file operations performed by the stages of this run
    hashed,             \* paths get_file_md5_hash was applied to in this run
    probes,             \* calls of are_hardlinks_supported in this run
    stages,             \* stage calls of this run, in order
    run,                \* number of this run
    prev                \* what the previous run did

fsvars  == <<tree, inodes>>
ctlvars == <<pc, can_use_hardlinks, projects, rest, cur, todo, select_path,
            raw_path_set>>
obsvars == <<log, ops, hashed, probes, stages>>
envvars == <<fs0, args, run, prev>>
vars    == <<tree, inodes, fs0, args, pc, can_use_hardlinks, projects, rest, cur,
             todo, select_path, raw_path_set, log, ops, hashed, probes, stages, run, prev>>

----------------------------------------------------------------------------
(* Bounds of the model *)

\* entries (besides the root) of a tree the locator is run on
MaxEntries == 4
\* depth of such a tree
MaxDepth == 3
\* file contents are 1..NumContents
NumContents == 3
\* digests are 1..NumDigests: fewer digests than contents, as for any hash
NumDigests == 2
\* successive runs of the program on one library
MaxRuns == 2

----------------------------------------------------------------------------
(* Names *)

PROJECT_RAW_SUBDIR    == <<"0", "_", "R", "A", "W">>
PROJECT_EDIT_SUBDIR   == <<"1", "_", "E", "D", "I", "T">>
PROJECT_EXPORT_SUBDIR == <<"2", "_", "E", "X", "P", "O", "R", "T">>

\* str.startswith
StartsWith(name, prefix) ==
    /\ Len(name) >= Len(prefix)
    /\ SubSeq(name, 1, Len(prefix)) = prefix

\* str.lower on the letters the model's names use
LowerChar(c) ==
    CASE c = "X" -> "x"
      [] c = "M" -> "m"
      [] c = "P" -> "p"
      [] c = "R" -> "r"
      [] c = "A" -> "a"
      [] c = "W" -> "w"
      [] OTHER -> c

Lower(s) == [i \in 1..Len(s) |-> LowerChar(s[i])]

\* os.path.splitext(path)[1]: from the last dot of the last component on,
\* leading dots of the component not counting; "" when there is none
SplitExt(name) ==
    LET dots    == {i \in 1..Len(name) : name[i] = "."}
        leading == {i \in 1..Len(name) : \A j \in 1..i : name[j] = "."}
    IN  IF dots \subseteq leading
        THEN <<>>
        ELSE LET k == CHOOSE i \in dots : \A j \in dots : j <= i
             IN  SubSeq(name, k, Len(name))

----------------------------------------------------------------------------
(* The file system *)

DirEntry      == [kind |-> "dir", ino |-> 0]
FileEntry(i)  == [kind |-> "file", ino |-> i]
LinkEntry(i)  == [kind |-> "symlink", ino |-> i]

Name(p)   == p[Len(p)]
Parent(p) == SubSeq(p, 1, Len(p) - 1)
Join(d, name) == Append(d, name)

\* d is a proper ancestor of p
IsAncestor(d, p) == Len(d) < Len(p) /\ SubSeq(p, 1, Len(d)) = d

Exists(t, p)    == p \in DOMAIN t
IsDir(t, p)     == Exists(t, p) /\ t[p].kind = "dir"
\* DirEntry.is_file() and os.path.isfile follow symbolic links
IsFile(t, p)    == Exists(t, p) /\ t[p].kind \in {"file", "symlink"}
IsSymlink(t, p) == Exists(t, p) /\ t[p].kind = "symlink"

\* os.scandir(d): the paths of d's immediate entries
Scandir(t, d) == {p \in DOMAIN t : Len(p) = Len(d) + 1 /\ Parent(p) = d}

\* a directory listing comes in some order, fixed for a fixed directory
RECURSIVE Listing(_)
Listing(S) ==
    IF S = {} THEN <<>>
    ELSE LET x == CHOOSE y \in S : TRUE IN <<x>> \o Listing(S \ {x})

----------------------------------------------------------------------------
(* find_projects *)

StageNames == {PROJECT_RAW_SUBDIR, PROJECT_EDIT_SUBDIR, PROJECT_EXPORT_SUBDIR}

Subdirs(t, d) == {x \in Scandir(t, d) : IsDir(t, x)}

\* a locator that knows a project by its 0_RAW only
HasStageSubdir_RawOnly(t, d) == \E x \in Subdirs(t, d) : Name(x) = PROJECT_RAW_SUBDIR

\* `any(x.name == PROJECT_RAW_SUBDIR or ... for x in subdirs)`
HasStageSubdir(t, d) == \E x \in Subdirs(t, d) : Name(x) \in StageNames

RECURSIVE find_projects(_, _)
RECURSIVE FindInEach(_, _)
FindInEach(t, dirs) ==
    IF dirs = <<>> THEN <<>>
    ELSE find_projects(t, Head(dirs)) \o FindInEach(t, Tail(dirs))

\* a locator that goes on below a project it has found
find_projects_descending(t, library_path) ==
    (IF HasStageSubdir(t, library_path) THEN <<library_path>> ELSE <<>>)
        \o FindInEach(t, Listing(Subdirs(t, library_path)))

find_projects(t, library_path) ==
    IF HasStageSubdir(t, library_path)
    THEN <<library_path>>
    ELSE FindInEach(t, Listing(Subdirs(t, library_path)))

----------------------------------------------------------------------------
(* File modes *)

RECURSIVE BitAnd(_, _)
BitAnd(a, b) ==
    IF a = 0 \/ b = 0 THEN 0
    ELSE (a % 2) * (b % 2) + 2 * BitAnd(a \div 2, b \div 2)

RECURSIVE BitOr(_, _)
BitOr(a, b) ==
    IF a = 0 THEN b
    ELSE IF b = 0 THEN a
    ELSE (IF a % 2 = 1 \/ b % 2 = 1 THEN 1 ELSE 0) + 2 * BitOr(a \div 2, b \div 2)

\* st_mode of a regular file: the file-type bits S_IFREG with the permission bits
RegMode(perm) == \o100000 + perm

\* os.stat(path).st_mode (stat follows symbolic links)
StMode(t, ind, p) == ind[t[p].ino].mode

\* what os.chmod(path, mode) leaves in st_mode: the type bits stay, the low
\* twelve bits are taken from mode
Chmod(ind, i, mode) ==
    [ind EXCEPT ![i].mode = RegMode(BitAnd(mode, \o7777))]

\* set_file_readonly: whether it changes the mode, and the mode it sets
ReadonlyNeeded(mode)  == BitAnd(mode, \o000333) # 0
ReadonlyMode(mode)    == BitAnd(mode, \o777444)

\* set_file_readwrite: whether it changes the mode, and the mode it sets
ReadwriteNeeded(mode) ==
    \/ BitAnd(mode, \o000111) # 0
    \/ BitAnd(mode, \o000666) # \o000666
ReadwriteMode_KeepsExec(mode) == BitOr(mode, \o000666)
ReadwriteMode(mode)   == BitOr(BitAnd(mode, \o777666), \o000666)

\* file_extension.lower() == '.xmp'
IsSidecar(p) == Lower(SplitExt(Name(p))) = <<".", "x", "m", "p">>

----------------------------------------------------------------------------
(* File operations *)

\* the storage units some path still names
LiveInodes(t) == {t[p].ino : p \in {q \in DOMAIN t : t[q].kind = "file"}}

\* drop the entries `gone`; storage no entry names any more is freed
RemoveEntries(t, ind, gone) ==
    LET t2 == [p \in DOMAIN t \ gone |-> t[p]]
    IN  [tree |-> t2, inodes |-> [i \in LiveInodes(t2) |-> ind[i]]]

\* os.unlink(p)
Unlink(t, ind, p) == RemoveEntries(t, ind, {p})

\* shutil.rmtree(d)
Rmtree(t, ind, d) ==
    RemoveEntries(t, ind, {p \in DOMAIN t : p = d \/ IsAncestor(d, p)})

\* os.link(src, dst): dst becomes one more name of src's storage
Link(t, src, dst) == (dst :> FileEntry(t[src].ino)) @@ t

\* os.path.samefile(a, b): same device and inode
Samefile(t, a, b) == t[a].ino = t[b].ino

\* hashlib.md5 of a content: a digest, of which there are fewer than contents
Md5(content) == ((content - 1) % NumDigests) + 1

\* get_file_md5_hash(path)
get_file_md5_hash(t, ind, p) == Md5(ind[t[p].ino].content)

----------------------------------------------------------------------------
(* are_hardlinks_supported *)

DUMMY_NAME == <<".", "d", "u", "m", "m", "y", ".", "d", "a", "t">>
DUMMY_LINK_NAME == DUMMY_NAME \o <<".", "l", "i", "n", "k">>

\* the content "TEST" the probe writes
TestContent == 0

NewIno(ind) ==
    IF DOMAIN ind = {} THEN 1
    ELSE 1 + CHOOSE i \in DOMAIN ind : \A j \in DOMAIN ind : j <= i

\* open(dummy_file, "w") and f.write("TEST"): [ok, tree, inodes].  It raises
\* OSError when the directory cannot be written (env = "nowrite"), when
\* dummy_file is a directory and when it is a file its owner may not write.
ProbeWrite(t, ind, dummy_file, env) ==
    IF env = "nowrite" \/ IsDir(t, dummy_file)
    THEN [ok |-> FALSE, tree |-> t, inodes |-> ind]
    ELSE IF Exists(t, dummy_file)
    THEN IF BitAnd(StMode(t, ind, dummy_file), \o200) = 0
         THEN [ok |-> FALSE, tree |-> t, inodes |-> ind]
         ELSE [ok |-> TRUE, tree |-> t,
               inodes |-> [ind EXCEPT ![t[dummy_file].ino].content = TestContent]]
    ELSE LET i == NewIno(ind)
         IN  [ok |-> TRUE, tree |-> (dummy_file :> FileEntry(i)) @@ t,
              inodes |-> (i :> [content |-> TestContent, mode |-> RegMode(\o644)]) @@ ind]

\* os.link(dummy_file, dummy_link): [ok, tree].  It raises OSError when the
\* file system has no hardlinks (env = "nolink") and when dummy_link exists.
ProbeLink(t, dummy_file, dummy_link, env) ==
    IF env = "nolink" \/ Exists(t, dummy_link)
    THEN [ok |-> FALSE, tree |-> t]
    ELSE [ok |-> TRUE, tree |-> Link(t, dummy_file, dummy_link)]

\* the finally clause, one path: [raised, tree, inodes]; os.unlink of a
\* directory raises, which nothing catches
ProbeCleanup(t, ind, p) ==
    IF ~Exists(t, p)
    THEN [raised |-> FALSE, tree |-> t, inodes |-> ind]
    ELSE IF IsDir(t, p)
    THEN [raised |-> TRUE, tree |-> t, inodes |-> ind]
    ELSE LET r == Unlink(t, ind, p)
         IN  [raised |-> FALSE, tree |-> r.tree, inodes |-> r.inodes]

\* are_hardlinks_supported(path): [supported, raised, tree, inodes]
are_hardlinks_supported(t, ind, path, env) ==
    LET dummy_file == Join(path, DUMMY_NAME)
        dummy_link == Join(path, DUMMY_LINK_NAME)
        w  == ProbeWrite(t, ind, dummy_file, env)
        l  == IF w.ok THEN ProbeLink(w.tree, dummy_file, dummy_link, env)
              ELSE [ok |-> FALSE, tree |-> w.tree]
        c1 == ProbeCleanup(l.tree, w.inodes, dummy_link)
        c2 == IF c1.raised THEN c1 ELSE ProbeCleanup(c1.tree, c1.inodes, dummy_file)
    IN  [supported |-> w.ok /\ l.ok, raised |-> c2.raised,
         tree |-> c2.tree, inodes |-> c2.inodes]

ProbeEnvs == {"ok", "nowrite", "nolink"}

----------------------------------------------------------------------------
(* What the stages see *)

\* a file operation that is not guarded by the dry-run flag
Applies_Always(dry_run) == TRUE

\* `if not dry_run:` before every file operation
Applies(dry_run) == ~dry_run

\* a flag that leaves the probe's answer out
HardlinkSelects_Ungated(a, can) == a.hardlink_selects

\* `hardlink_selects and can_use_hardlinks`, the flag cleanup_project gets
HardlinkSelects(a, can) == a.hardlink_selects /\ can

IsHidden(name) == StartsWith(name, <<".">>)

\* glob.glob(f"{project_path}/**/._*", recursive=True): every entry below the
\* project whose name starts with "._"; "**" does not enter hidden directories
Glob(t, project_path) ==
    {p \in DOMAIN t :
        /\ IsAncestor(project_path, p)
        /\ StartsWith(Name(p), <<".", "_">>)
        /\ \A k \in (Len(project_path) + 1)..(Len(p) - 1) : ~IsHidden(p[k])}

\* the entries remove_edit_files visits
EditEntries(t, project_path) ==
    LET export_dir == Join(project_path, PROJECT_EDIT_SUBDIR)
    IN  IF IsDir(t, export_dir) THEN Scandir(t, export_dir) ELSE {}

\* select_files of hardlink_select_files (no junctions off Windows)
SelectFiles(t, project_path) ==
    IF IsDir(t, Join(project_path, PROJECT_RAW_SUBDIR))
    THEN {x \in Scandir(t, project_path) :
            IsFile(t, x) /\ ~(IsHidden(Name(x)) \/ IsSymlink(t, x))}
    ELSE {}

RawCandidate(project_path, x) ==
    Join(Join(project_path, PROJECT_RAW_SUBDIR), Name(x))

\* raw_files of set_files_permissions
RawFiles(t, project_path) ==
    LET raw_dir == Join(project_path, PROJECT_RAW_SUBDIR)
    IN  IF Exists(t, raw_dir) THEN {x \in Scandir(t, raw_dir) : IsFile(t, x)} ELSE {}

\* project_root_files of set_files_permissions
ProjectRootFiles(t, project_path) == {x \in Scandir(t, project_path) : IsFile(t, x)}

\* `hardlink_selects and (x.path in raw_path_set)`: the root file is skipped
SkipsRootFile(hardlink_selects, x, raw_paths) == hardlink_selects /\ x \in raw_paths

----------------------------------------------------------------------------
(* Printed lines and performed operations *)

Printed(op, path, info) == [op |-> op, path |-> path, info |-> info]
Performed(op, path) == [op |-> op, path |-> path]

Stage(project_path, name) == [project |-> project_path, stage |-> name]

\* set_file_mode(path, mode, ...): print, and chmod unless dry_run
set_file_mode(path, mode) ==
    /\ log' = Append(log, Printed("chmod", path, <<mode>>))
    /\ IF Applies(args.dry_run)
       THEN /\ inodes' = Chmod(inodes, tree[path].ino, mode)
            /\ ops' = Append(ops, Performed("chmod", path))
       ELSE UNCHANGED <<inodes, ops>>

set_file_readonly(path) ==
    LET mode == StMode(tree, inodes, path)
    IN  IF ReadonlyNeeded(mode)
        THEN set_file_mode(path, ReadonlyMode(mode))
        ELSE UNCHANGED <<log, inodes, ops>>

set_file_readwrite(path) ==
    LET mode == StMode(tree, inodes, path)
    IN  IF ReadwriteNeeded(mode)
        THEN set_file_mode(path, ReadwriteMode(mode))
        ELSE UNCHANGED <<log, inodes, ops>>

----------------------------------------------------------------------------
(* The run *)

\* a check that takes anything that exists for a library
LibraryFound_Exists(t) == Exists(t, <<>>)

\* `os.path.isdir(args.library)`
LibraryFound(t) == IsDir(t, <<>>)

\* __main__: the library must be a directory, or ApplicationError is raised
Main ==
    /\ pc = "main"
    /\ pc' = IF LibraryFound(tree) THEN "probe" ELSE "aborted"
    /\ UNCHANGED <<fsvars, envvars, obsvars, can_use_hardlinks, projects, rest,
                   cur, todo, select_path, raw_path_set>>

\* cleanup_photo_library, up to the summary: the capability probe
ProbeCapability ==
    /\ pc = "probe"
    /\ IF args.hardlink_selects
       THEN \E env \in ProbeEnvs :
              LET r == are_hardlinks_supported(tree, inodes, <<>>, env)
              IN  /\ tree' = r.tree
                  /\ inodes' = r.inodes
                  /\ can_use_hardlinks' = r.supported
                  /\ probes' = probes + 1
                  /\ pc' = IF r.raised THEN "crashed" ELSE "locate"
       ELSE /\ can_use_hardlinks' = FALSE
            /\ pc' = "locate"
            /\ UNCHANGED <<fsvars, probes>>
    /\ UNCHANGED <<envvars, log, ops, hashed, stages, projects, rest, cur, todo,
                   select_path, raw_path_set>>

\* cleanup_photo_library: `for project_dir in find_projects(library_path)`
Locate ==
    /\ pc = "locate"
    /\ projects' = find_projects(tree, <<>>)
    /\ rest' = projects'
    /\ pc' = "project"
    /\ UNCHANGED <<fsvars, envvars, obsvars, can_use_hardlinks, cur, todo,
                   select_path, raw_path_set>>

\* cleanup_project, up to the glob of remove_dot_files
cleanup_project ==
    /\ pc = "project"
    /\ rest # <<>>
    /\ cur' = Head(rest)
    /\ rest' = Tail(rest)
    /\ IF args.remove_dotfiles
       THEN /\ todo' = Glob(tree, cur')
            /\ stages' = stages \o <<Stage(cur', "begin"), Stage(cur', "remove_dot_files")>>
       ELSE /\ todo' = {}
            /\ stages' = Append(stages, Stage(cur', "begin"))
    /\ pc' = "dot"
    /\ UNCHANGED <<fsvars, envvars, log, ops, hashed, probes, can_use_hardlinks,
                   projects, select_path, raw_path_set>>

\* remove_dot_files: one turn of the loop
remove_dot_files ==
    /\ pc = "dot"
    /\ \E f \in todo :
         /\ todo' = todo \ {f}
         /\ log' = Append(log, Printed("delete", f, <<>>))
         /\ IF ~Applies(args.dry_run)
            THEN UNCHANGED <<fsvars, ops, pc>>
            ELSE IF IsDir(tree, f)
            THEN pc' = "crashed" /\ UNCHANGED <<fsvars, ops>>
            ELSE LET r == Unlink(tree, inodes, f)
                 IN  /\ tree' = r.tree
                     /\ inodes' = r.inodes
                     /\ ops' = Append(ops, Performed("unlink", f))
                     /\ UNCHANGED pc
    /\ UNCHANGED <<envvars, hashed, probes, stages, can_use_hardlinks, projects,
                   rest, cur, select_path, raw_path_set>>

\* cleanup_project: `if remove_edits: remove_edit_files(...)`, up to the scandir
call_remove_edit_files ==
    /\ pc = "dot"
    /\ todo = {}
    /\ IF args.remove_edits
       THEN /\ todo' = EditEntries(tree, cur)
            /\ stages' = Append(stages, Stage(cur, "remove_edit_files"))
       ELSE UNCHANGED <<todo, stages>>
    /\ pc' = "edits"
    /\ UNCHANGED <<fsvars, envvars, log, ops, hashed, probes, can_use_hardlinks,
                   projects, rest, cur, select_path, raw_path_set>>

\* remove_edit_files: one turn of the loop
remove_edit_files ==
    /\ pc = "edits"
    /\ \E x \in todo :
         /\ todo' = todo \ {x}
         /\ IF IsFile(tree, x)
            THEN /\ log' = Append(log, Printed("delete", x, <<>>))
                 /\ IF Applies(args.dry_run)
                    THEN LET r == Unlink(tree, inodes, x)
                         IN  /\ tree' = r.tree
                             /\ inodes' = r.inodes
                             /\ ops' = Append(ops, Performed("unlink", x))
                    ELSE UNCHANGED <<fsvars, ops>>
            ELSE IF IsDir(tree, x)
            THEN /\ log' = Append(log, Printed("delete", x, <<>>))
                 /\ IF Applies(args.dry_run)
                    THEN LET r == Rmtree(tree, inodes, x)
                         IN  /\ tree' = r.tree
                             /\ inodes' = r.inodes
                             /\ ops' = Append(ops, Performed("rmtree", x))
                    ELSE UNCHANGED <<fsvars, ops>>
            ELSE UNCHANGED <<fsvars, log, ops>>
    /\ UNCHANGED <<envvars, hashed, probes, stages, pc, can_use_hardlinks, projects,
                   rest, cur, select_path, raw_path_set>>

\* a cleanup_project that leaves deduplication for after the permission pass
call_hardlink_select_files_Deferred ==
    /\ IF pc = "edits"
       THEN /\ todo = {}
            /\ pc' = "dedup"
            /\ UNCHANGED <<todo, stages>>
       ELSE /\ pc = "perms_root"
            /\ todo = {}
            /\ HardlinkSelects(args, can_use_hardlinks)
            /\ Stage(cur, "hardlink_select_files") \notin {stages[i] : i \in DOMAIN stages}
            /\ todo' = SelectFiles(tree, cur)
            /\ stages' = Append(stages, Stage(cur, "hardlink_select_files"))
            /\ pc' = "dedup"
    /\ UNCHANGED <<fsvars, envvars, log, ops, hashed, probes, can_use_hardlinks,
                   projects, rest, cur, select_path, raw_path_set>>

\* cleanup_project: `if hardlink_selects: hardlink_select_files(...)`, up to
\* the list select_files
call_hardlink_select_files ==
    /\ pc = "edits"
    /\ todo = {}
    /\ IF HardlinkSelects(args, can_use_hardlinks)
       THEN /\ todo' = SelectFiles(tree, cur)
            /\ stages' = Append(stages, Stage(cur, "hardlink_select_files"))
       ELSE UNCHANGED <<todo, stages>>
    /\ pc' = "dedup"
    /\ UNCHANGED <<fsvars, envvars, log, ops, hashed, probes, can_use_hardlinks,
                   projects, rest, cur, select_path, raw_path_set>>

\* a comparison of digests that is the wrong way round
SameDigest_Inverted(select_md5, raw_md5) == select_md5 # raw_md5

\* a comparison of digests that takes any two files for equal
SameDigest_Always(select_md5, raw_md5) == TRUE

\* `if select_md5 == raw_md5:`
SameDigest(select_md5, raw_md5) == select_md5 = raw_md5

\* hardlink_select_files: one turn of the loop, up to os.unlink(select_path)
hardlink_select_files ==
    /\ pc = "dedup"
    /\ \E x \in todo :
         LET raw_candidate == RawCandidate(cur, x)
         IN
         /\ todo' = todo \ {x}
         /\ IF ~(Exists(tree, raw_candidate) /\ ~Samefile(tree, x, raw_candidate))
            THEN UNCHANGED <<fsvars, log, ops, hashed, pc, select_path>>
            ELSE IF IsDir(tree, raw_candidate)
            THEN \* open() of a directory raises
                 /\ hashed' = Append(hashed, x)
                 /\ pc' = "crashed"
                 /\ UNCHANGED <<fsvars, log, ops, select_path>>
            ELSE LET select_md5 == get_file_md5_hash(tree, inodes, x)
                     raw_md5    == get_file_md5_hash(tree, inodes, raw_candidate)
                 IN
                 /\ hashed' = hashed \o <<x, raw_candidate>>
                 /\ IF SameDigest(select_md5, raw_md5)
                    THEN /\ log' = Append(log, Printed("link", x, <<>>))
                         /\ IF Applies(args.dry_run)
                            THEN LET r == Unlink(tree, inodes, x)
                                 IN  /\ tree' = r.tree
                                     /\ inodes' = r.inodes
                                     /\ ops' = Append(ops, Performed("unlink", x))
                                     /\ select_path' = x
                                     /\ pc' = "relink"
                            ELSE UNCHANGED <<fsvars, ops, pc, select_path>>
                    ELSE /\ log' = Append(log, Printed("warn", x, <<select_md5, raw_md5>>))
                         /\ UNCHANGED <<fsvars, ops, pc, select_path>>
    /\ UNCHANGED <<envvars, probes, stages, can_use_hardlinks, projects, rest, cur,
                   raw_path_set>>

\* hardlink_select_files: os.link(raw_candidate, select_path), which succeeds
\* or raises OSError, which nothing catches
relink ==
    /\ pc = "relink"
    /\ \E ok \in BOOLEAN :
         IF ok
         THEN /\ tree' = Link(tree, RawCandidate(cur, select_path), select_path)
              /\ ops' = Append(ops, Performed("link", select_path))
              /\ pc' = "dedup"
         ELSE /\ pc' = "crashed"
              /\ UNCHANGED <<tree, ops>>
    /\ select_path' = <<>>
    /\ UNCHANGED <<inodes, envvars, log, hashed, probes, stages, can_use_hardlinks,
                   projects, rest, cur, todo, raw_path_set>>

\* cleanup_project: `if fix_permissions: set_files_permissions(...)`, up to
\* the list raw_files; os.scandir of a raw_dir that is a file raises
call_set_files_permissions ==
    /\ pc = "dedup"
    /\ todo = {}
    /\ raw_path_set' = {}
    /\ IF args.fix_permissions
       THEN LET raw_dir == Join(cur, PROJECT_RAW_SUBDIR)
            IN  /\ todo' = RawFiles(tree, cur)
                /\ stages' = Append(stages, Stage(cur, "set_files_permissions"))
                /\ pc' = IF Exists(tree, raw_dir) /\ ~IsDir(tree, raw_dir)
                         THEN "crashed" ELSE "perms_raw"
       ELSE /\ pc' = "perms_raw"
            /\ UNCHANGED <<todo, stages>>
    /\ UNCHANGED <<fsvars, envvars, log, ops, hashed, probes, can_use_hardlinks,
                   projects, rest, cur, select_path>>

\* set_files_permissions: one turn of the loop over raw_files
set_raw_permissions ==
    /\ pc = "perms_raw"
    /\ \E x \in todo :
         /\ todo' = todo \ {x}
         /\ set_file_readonly(x)
         /\ raw_path_set' = raw_path_set \cup {x}
    /\ UNCHANGED <<tree, envvars, hashed, probes, stages, pc, can_use_hardlinks,
                   projects, rest, cur, select_path>>

\* set_files_permissions: the list project_root_files
list_project_root_files ==
    /\ pc = "perms_raw"
    /\ todo = {}
    /\ todo' = IF args.fix_permissions THEN ProjectRootFiles(tree, cur) ELSE {}
    /\ pc' = "perms_root"
    /\ UNCHANGED <<fsvars, envvars, obsvars, can_use_hardlinks, projects, rest, cur,
                   select_path, raw_path_set>>

\* set_files_permissions: one turn of the loop over project_root_files
set_root_permissions ==
    /\ pc = "perms_root"
    /\ \E x \in todo :
         /\ todo' = todo \ {x}
         /\ IF SkipsRootFile(HardlinkSelects(args, can_use_hardlinks), x, raw_path_set)
            THEN UNCHANGED <<log, inodes, ops>>
            ELSE IF IsSidecar(x)
            THEN set_file_readwrite(x)
            ELSE set_file_readonly(x)
    /\ UNCHANGED <<tree, envvars, hashed, probes, stages, pc, can_use_hardlinks,
                   projects, rest, cur, select_path, raw_path_set>>

\* cleanup_project returns
end_project ==
    /\ pc = "perms_root"
    /\ todo = {}
    /\ stages' = Append(stages, Stage(cur, "end"))
    /\ pc' = "project"
    /\ UNCHANGED <<fsvars, envvars, log, ops, hashed, probes, can_use_hardlinks,
                   projects, rest, cur, todo, select_path, raw_path_set>>

\* cleanup_photo_library returns: the process exits with status 0
Finish ==
    /\ pc = "project"
    /\ rest = <<>>
    /\ pc' = "done"
    /\ UNCHANGED <<fsvars, envvars, obsvars, can_use_hardlinks, projects, rest, cur,
                   todo, select_path, raw_path_set>>

\* the process is over: it returned from cleanup_photo_library, or it raised
\* ApplicationError, or a file operation raised
Exited == pc \in {"done", "aborted", "crashed"}

\* the exit status of a process that is over: 1 after an uncaught exception
ExitStatus == IF pc = "done" THEN 0 ELSE 1

----------------------------------------------------------------------------
(* Successive runs *)

NoRun == [kind |-> "none", log |-> <<>>, ops |-> <<>>, can |-> FALSE]

ThisRun == [kind |-> IF args.dry_run THEN "dry" ELSE "applied",
            log |-> log, ops |-> ops, can |-> can_use_hardlinks]

StartOfRun ==
    /\ pc' = "main"
    /\ can_use_hardlinks' = FALSE
    /\ projects' = <<>>
    /\ rest' = <<>>
    /\ cur' = <<>>
    /\ todo' = {}
    /\ select_path' = <<>>
    /\ raw_path_set' = {}
    /\ log' = <<>>
    /\ ops' = <<>>
    /\ hashed' = <<>>
    /\ probes' = 0
    /\ stages' = <<>>

\* the program is run again with the same flags on the tree it left
RunAgain ==
    /\ pc = "done"
    /\ run < MaxRuns
    /\ ~args.dry_run
    /\ run' = run + 1
    /\ prev' = ThisRun
    /\ fs0' = [tree |-> tree, inodes |-> inodes]
    /\ StartOfRun
    /\ UNCHANGED <<fsvars, args>>

\* after a dry run, the program is run with dry-run off and otherwise the same
\* flags on the tree the dry run was started on
RunApplied ==
    /\ pc = "done"
    /\ run < MaxRuns
    /\ args.dry_run
    /\ run' = run + 1
    /\ prev' = ThisRun
    /\ args' = [args EXCEPT !.dry_run = FALSE]
    /\ tree' = fs0.tree
    /\ inodes' = fs0.inodes
    /\ StartOfRun
    /\ UNCHANGED fs0

----------------------------------------------------------------------------
(* Libraries the runs start on *)

NameP   == <<"p">>
NameQ   == <<"q">>
NameG   == <<"g">>
NameSub == <<"s", "u", "b">>
NameHid == <<".", "h">>
A_RAW   == <<"a", ".", "r", "a", "w">>
A_XMP   == <<"a", ".", "X", "M", "P">>
B_RAW   == <<"b", ".", "r", "a", "w">>
E_TIF   == <<"e", ".", "t", "i", "f">>
DOT_A   == <<".", "_", "a">>
DOT_D   == <<".", "_", "d">>

Contents == 1..NumContents

ArgSets == [remove_dotfiles : BOOLEAN, remove_edits : BOOLEAN,
            hardlink_selects : BOOLEAN, fix_permissions : BOOLEAN,
            dry_run : BOOLEAN]

Inode(content, perm) == [content |-> content, mode |-> RegMode(perm)]

\* a file system from its directories, its files (path :> entry) and inodes
MkFs(dirs, files, ind) ==
    [tree |-> [d \in dirs |-> DirEntry] @@ files, inodes |-> ind]

\* the union of two file systems on disjoint paths and inodes
Plus(f, g) == [tree |-> f.tree @@ g.tree, inodes |-> f.inodes @@ g.inodes]

ProjP == <<NameP>>
ProjQ == <<NameG, NameQ>>

\* project g/q: one select with an equal raw original
FsQ ==
    MkFs({<<NameG>>, ProjQ, Join(ProjQ, PROJECT_RAW_SUBDIR)},
         (Join(ProjQ, B_RAW) :> FileEntry(11))
            @@ (RawCandidate(ProjQ, Join(ProjQ, B_RAW)) :> FileEntry(12)),
         (11 :> Inode(1, \o644)) @@ (12 :> Inode(1, \o644)))

\* the directories of project p
FsPDirs ==
    MkFs({<<>>, ProjP, Join(ProjP, PROJECT_RAW_SUBDIR), Join(ProjP, PROJECT_EDIT_SUBDIR)},
         <<>>, <<>>)

\* permission bits of a root file and of its raw original
ModePairs == {<<\o644, \o644>>, <<\o640, \o444>>, <<\o444, \o755>>,
              <<\o666, \o666>>, <<\o755, \o444>>}

\* a root file `name` of project proj and its raw original: two files (the
\* raw one with content 1), one file under both names, a symbolic link to the
\* raw original, or a root file alone
PairFs(proj, name, rel, content, m) ==
    LET root == Join(proj, name)
        raw  == RawCandidate(proj, root)
    IN  CASE rel = "separate" ->
               MkFs({}, (root :> FileEntry(1)) @@ (raw :> FileEntry(2)),
                    (1 :> Inode(content, m[1])) @@ (2 :> Inode(1, m[2])))
          [] rel = "linked" ->
               MkFs({}, (root :> FileEntry(2)) @@ (raw :> FileEntry(2)),
                    (2 :> Inode(1, m[2])))
          [] rel = "symlink" ->
               MkFs({}, (root :> LinkEntry(2)) @@ (raw :> FileEntry(2)),
                    (2 :> Inode(1, m[2])))
          [] OTHER ->
               MkFs({}, (root :> FileEntry(1)), (1 :> Inode(content, m[1])))

PairFss(proj) ==
    {PairFs(proj, name, "separate", c, m) :
        name \in {A_RAW, A_XMP}, c \in Contents, m \in ModePairs}
    \cup {PairFs(proj, name, rel, 1, m) :
        name \in {A_RAW, A_XMP}, rel \in {"linked", "symlink", "alone"}, m \in ModePairs}

\* a library with the projects p and g/q, p holding one pair
PairLibraries == {Plus(Plus(FsPDirs, FsQ), f) : f \in PairFss(ProjP)}

\* things for the sweeps to find in project p
SweepFs(k) ==
    LET edit == Join(ProjP, PROJECT_EDIT_SUBDIR)
        raw  == Join(ProjP, PROJECT_RAW_SUBDIR)
    IN  CASE k = 1 ->
               MkFs({Join(edit, NameSub)},
                    (Join(ProjP, DOT_A) :> FileEntry(3))
                       @@ (Join(raw, DOT_A) :> FileEntry(4))
                       @@ (Join(edit, E_TIF) :> FileEntry(5))
                       @@ (Join(Join(edit, NameSub), DOT_A) :> FileEntry(6)),
                    (3 :> Inode(1, \o644)) @@ (4 :> Inode(1, \o644))
                       @@ (5 :> Inode(2, \o644)) @@ (6 :> Inode(2, \o600)))
          [] k = 2 ->
               MkFs({Join(ProjP, NameHid), Join(ProjP, NameSub)},
                    (Join(Join(ProjP, NameHid), DOT_A) :> FileEntry(3))
                       @@ (Join(Join(ProjP, NameSub), DOT_A) :> FileEntry(4))
                       @@ (Join(edit, DOT_A) :> FileEntry(5)),
                    (3 :> Inode(1, \o644)) @@ (4 :> Inode(1, \o644))
                       @@ (5 :> Inode(2, \o644)))
          [] OTHER ->
               MkFs({Join(ProjP, DOT_D)},
                    (Join(edit, E_TIF) :> FileEntry(5)),
                    (5 :> Inode(2, \o644)))

SweepLibraries ==
    {Plus(Plus(Plus(FsPDirs, FsQ), PairFs(ProjP, A_RAW, "separate", 1, <<\o644, \o644>>)),
          SweepFs(k)) : k \in 1..3}

\* the library root is itself a project; it may hold the names the probe uses
RootLibraries ==
    LET base == Plus(MkFs({<<>>, <<PROJECT_RAW_SUBDIR>>}, <<>>, <<>>),
                     PairFs(<<>>, A_RAW, "separate", 1, <<\o644, \o644>>))
    IN  {base,
         Plus(base, MkFs({}, (<<DUMMY_NAME>> :> FileEntry(7)), (7 :> Inode(2, \o644)))),
         Plus(base, MkFs({}, (<<DUMMY_LINK_NAME>> :> FileEntry(7)), (7 :> Inode(2, \o644)))),
         Plus(base, MkFs({<<DUMMY_NAME>>}, <<>>, <<>>))}

\* the library path names no directory: nothing, or a file
NoLibraries ==
    {MkFs({}, <<>>, <<>>), MkFs({}, (<<>> :> FileEntry(1)), (1 :> Inode(1, \o644)))}

Libraries == PairLibraries \cup SweepLibraries \cup RootLibraries \cup NoLibraries

Init ==
    /\ \E f \in Libraries :
         /\ tree = f.tree
         /\ inodes = f.inodes
         /\ fs0 = f
    /\ args \in ArgSets
    /\ run = 1
    /\ prev = NoRun
    /\ pc = "main"
    /\ can_use_hardlinks = FALSE
    /\ projects = <<>>
    /\ rest = <<>>
    /\ cur = <<>>
    /\ todo = {}
    /\ select_path = <<>>
    /\ raw_path_set = {}
    /\ log = <<>>
    /\ ops = <<>>
    /\ hashed = <<>>
    /\ probes = 0
    /\ stages = <<>>

Next ==
    \/ Main
    \/ ProbeCapability
    \/ Locate
    \/ cleanup_project
    \/ remove_dot_files
    \/ call_remove_edit_files
    \/ remove_edit_files
    \/ call_hardlink_select_files
    \/ hardlink_select_files
    \/ relink
    \/ call_set_files_permissions
    \/ set_raw_permissions
    \/ list_project_root_files
    \/ set_root_permissions
    \/ end_project
    \/ Finish
    \/ RunAgain
    \/ RunApplied

Spec == Init /\ [][Next]_vars

----------------------------------------------------------------------------
(* The locator on arbitrary trees: entries are added to an empty library, *)
(* directories and files under stage names and other names, and the       *)
(* locator is run on what has been built.                                 *)

LocateNames == StageNames \cup {NameP, NameQ}

\* every file of such a tree is a name of one storage unit
LocateInodes(t) ==
    IF \E p \in DOMAIN t : t[p].kind = "file" THEN (1 :> Inode(1, \o644)) ELSE <<>>

MkEntry ==
    /\ pc = "locate"
    /\ Cardinality(DOMAIN tree) <= MaxEntries
    /\ \E d \in DOMAIN tree, name \in LocateNames, e \in {DirEntry, FileEntry(1)} :
         /\ IsDir(tree, d)
         /\ Len(d) < MaxDepth
         /\ ~Exists(tree, Join(d, name))
         /\ tree' = (Join(d, name) :> e) @@ tree
         /\ inodes' = LocateInodes(tree')
    /\ fs0' = [tree |-> tree', inodes |-> inodes']
    /\ UNCHANGED <<args, run, prev, ctlvars, obsvars>>

InitLocate ==
    /\ tree = (<<>> :> DirEntry)
    /\ inodes = <<>>
    /\ fs0 = [tree |-> tree, inodes |-> inodes]
    /\ args = [remove_dotfiles |-> TRUE, remove_edits |-> TRUE,
               hardlink_selects |-> FALSE, fix_permissions |-> TRUE,
               dry_run |-> TRUE]
    /\ run = 1
    /\ prev = NoRun
    /\ pc = "locate"
    /\ can_use_hardlinks = FALSE
    /\ projects = <<>>
    /\ rest = <<>>
    /\ cur = <<>>
    /\ todo = {}
    /\ select_path = <<>>
    /\ raw_path_set = {}
    /\ log = <<>>
    /\ ops = <<>>
    /\ hashed = <<>>
    /\ probes = 0
    /\ stages = <<>>

NextLocate ==
    \/ MkEntry
    \/ Locate

SpecLocate == InitLocate /\ [][NextLocate]_vars

----------------------------------------------------------------------------
(* Properties *)

Returned == {projects[i] : i \in DOMAIN projects}

StagesOf(project_path) ==
    {stages[i].stage : i \in {j \in DOMAIN stages : stages[j].project = project_path}}

\* the call of stage `name` on the project has returned
StageOver(project_path, name) ==
    /\ name \in StagesOf(project_path)
    /\ \/ "end" \in StagesOf(project_path)
       \/ /\ cur = project_path
          /\ name = "hardlink_select_files"
          /\ pc \in {"perms_raw", "perms_root"}

ContentAt(f, p) == f.inodes[f.tree[p].ino].content
ModeAt(f, p)    == f.inodes[f.tree[p].ino].mode
Now == [tree |-> tree, inodes |-> inodes]

\* the non-hidden regular root files of a project (no symbolic links) that
\* have a same-named regular file in the project's 0_RAW
Pairs(f, project_path) ==
    {x \in Scandir(f.tree, project_path) :
        /\ f.tree[x].kind = "file"
        /\ Name(x)[1] # "."
        /\ Exists(f.tree, RawCandidate(project_path, x))
        /\ f.tree[RawCandidate(project_path, x)].kind = "file"}

OpsOn(path, kinds) == {i \in DOMAIN ops : ops[i].path = path /\ ops[i].op \in kinds}
LogOn(path, kind) == {i \in DOMAIN log : log[i].path = path /\ log[i].op = kind}

\* this run repeats, on the tree it left, a run that was not a dry run and
\* that found the same hardlink capability
RepeatsAppliedRun ==
    /\ prev.kind = "applied"
    /\ pc \notin {"main", "probe"}
    /\ prev.can = can_use_hardlinks

\* C1: a run that repeats a run with the same flags (dry-run off) performs no
\* file operation in any project.
C1_SecondRunIdle ==
    RepeatsAppliedRun => ops = <<>>

\* C2: with deduplication enabled, hardlinks supported and dry-run off, once
\* hardlink_select_files has returned for a project, every non-hidden regular
\* root file that had a same-named 0_RAW file of equal content shares the
\* storage the 0_RAW file had, and that storage holds the same content.
C2_EqualContentLinked ==
    \A P \in Returned :
        (StageOver(P, "hardlink_select_files") /\ ~args.dry_run) =>
            \A x \in Pairs(fs0, P) :
                LET raw == RawCandidate(P, x)
                IN  ContentAt(fs0, x) = ContentAt(fs0, raw) =>
                        /\ Exists(tree, x) /\ Exists(tree, raw)
                        /\ tree[x] = FileEntry(fs0.tree[raw].ino)
                        /\ tree[raw] = fs0.tree[raw]
                        /\ ContentAt(Now, raw) = ContentAt(fs0, raw)

\* C2 witness: the deduplicator has returned and a root file that was a
\* separate copy of its raw original now shares the raw original's storage
C2_Witness ==
    \E P \in Returned :
        /\ StageOver(P, "hardlink_select_files")
        /\ ~args.dry_run
        /\ \E x \in Pairs(fs0, P) :
             /\ ContentAt(fs0, x) = ContentAt(fs0, RawCandidate(P, x))
             /\ fs0.tree[x].ino # fs0.tree[RawCandidate(P, x)].ino
             /\ Exists(tree, x)
             /\ tree[x].ino = fs0.tree[RawCandidate(P, x)].ino

\* what C3 asks of a root file x of project P and its raw original
PairUntouched(P, x) ==
    LET raw == RawCandidate(P, x)
    IN  /\ Exists(tree, x) /\ Exists(tree, raw)
        /\ tree[x] = fs0.tree[x]
        /\ tree[raw] = fs0.tree[raw]
        /\ tree[x].ino # tree[raw].ino
        /\ ContentAt(Now, x) = ContentAt(fs0, x)
        /\ ContentAt(Now, raw) = ContentAt(fs0, raw)
        /\ OpsOn(x, {"unlink", "link"}) = {}
        /\ OpsOn(raw, {"unlink", "link"}) = {}

OneWarning(P, x) ==
    /\ Cardinality(LogOn(x, "warn")) = 1
    /\ \A i \in LogOn(x, "warn") :
          log[i].info = <<Md5(ContentAt(fs0, x)), Md5(ContentAt(fs0, RawCandidate(P, x)))>>

C4_SelectNeverMissing ==
    pc \notin {"main", "probe", "locate"} =>
        \A P \in Returned : \A x \in Pairs(fs0, P) :
            /\ Exists(tree, x)
            /\ ContentAt(Now, x) = ContentAt(fs0, x)

\* the regular files under a project's 0_RAW
FilesUnderRaw(P) ==
    {x \in DOMAIN tree :
        IsAncestor(Join(P, PROJECT_RAW_SUBDIR), x) /\ tree[x].kind = "file"}

\* C5: once set_files_permissions has run on a project with dry-run off, no
\* regular file under the project's 0_RAW has a write or an execute bit.
C5_RawReadOnly ==
    \A P \in Returned :
        (StageOver(P, "set_files_permissions") /\ ~args.dry_run) =>
            \A x \in FilesUnderRaw(P) : BitAnd(ModeAt(Now, x), \o333) = 0

\* a root file shares storage with a file of the project's 0_RAW
Deduplicated(P, x) == \E r \in FilesUnderRaw(P) : tree[r].ino = tree[x].ino

\* the immediate regular files of a project's root
RootFiles(P) == {x \in Scandir(tree, P) : tree[x].kind = "file"}

\* C6: once set_files_permissions has run on a project with dry-run off, every
\* immediate regular root file with the extension .xmp (any letter case) has
\* read and write for owner, group and others and no execute bit, and every
\* other immediate root file that is not deduplicated has no write and no
\* execute bit and the read bits it had before.
C6_RootFileModes ==
    \A P \in Returned :
        (StageOver(P, "set_files_permissions") /\ ~args.dry_run) =>
            \A x \in RootFiles(P) :
                IF Lower(SplitExt(Name(x))) = <<".", "x", "m", "p">>
                THEN BitAnd(ModeAt(Now, x), \o777) = \o666
                ELSE ~Deduplicated(P, x) =>
                        /\ BitAnd(ModeAt(Now, x), \o333) = 0
                        /\ Exists(fs0.tree, x)
                        /\ BitAnd(ModeAt(Now, x), \o444) = BitAnd(ModeAt(fs0, x), \o444)

\* C6 witness: the permission pass is over for a project that had a sidecar
\* with an execute bit and another root file, not deduplicated, with a write
\* bit and without some read bit
C6_Witness ==
    \E P \in Returned :
        /\ StageOver(P, "set_files_permissions")
        /\ ~args.dry_run
        /\ \E x \in RootFiles(P) :
             /\ Exists(fs0.tree, x)
             /\ \/ /\ IsSidecar(x)
                   /\ BitAnd(ModeAt(fs0, x), \o111) # 0
                   /\ OpsOn(x, {"chmod"}) # {}
                \/ /\ ~IsSidecar(x)
                   /\ ~Deduplicated(P, x)
                   /\ BitAnd(ModeAt(fs0, x), \o777) = \o640
                   /\ OpsOn(x, {"chmod"}) # {}

\* the positions at which a stage of a project is at work
StagePcs == {"project", "dot", "edits", "dedup", "relink", "perms_raw", "perms_root"}

ReportedPaths(l) == {l[i].path : i \in {j \in DOMAIN l : l[j].op # "warn"}}
MutatedPaths(o)  == {o[i].path : i \in DOMAIN o}

\* C8: the paths a dry run reports as affected are the paths a run with
\* dry-run off, the same flags otherwise and the same starting tree, mutates.
C8_DryRunFidelity ==
    (pc = "done" /\ prev.kind = "dry" /\ prev.can = can_use_hardlinks) =>
        ReportedPaths(prev.log) = MutatedPaths(ops)

\* C9: whatever the tree, no path find_projects returns is an ancestor of
\* another path it returns, and every returned path has an immediate
\* subdirectory named 0_RAW, 1_EDIT or 2_EXPORT.
C9_LocatorAntichain ==
    pc = "project" =>
        /\ \A d \in Returned, e \in Returned : ~IsAncestor(d, e)
        /\ \A d \in Returned :
              \/ IsDir(tree, Join(d, <<"0", "_", "R", "A", "W">>))
              \/ IsDir(tree, Join(d, <<"1", "_", "E", "D", "I", "T">>))
              \/ IsDir(tree, Join(d, <<"2", "_", "E", "X", "P", "O", "R", "T">>))

\* C9 witness: the locator has returned a project that holds, further down,
\* another directory with a stage subdirectory
C9_Witness ==
    /\ pc = "project"
    /\ \E d \in Returned, e \in DOMAIN tree :
         /\ IsAncestor(d, e)
         /\ IsDir(tree, Join(e, PROJECT_EXPORT_SUBDIR))

\* the entries the sweeps may remove: names starting with "._", and what is
\* inside a 1_EDIT
Sweepable(p) ==
    \/ StartsWith(Name(p), <<".", "_">>)
    \/ \E P \in Returned : IsAncestor(Join(P, PROJECT_EDIT_SUBDIR), p)

\* C10: the capability is probed at most once per run and before any project
\* is processed; when the probe reports hardlinks unsupported, no digest is
\* computed, no select is unlinked and no link is created in any project,
\* while the sweeps and the permission pass run on every project as their
\* flags say.
C10_CapabilityGate ==
    /\ probes <= 1
    /\ pc \in {"main", "probe"} => (stages = <<>> /\ ops = <<>> /\ hashed = <<>>)
    /\ (pc \notin {"main", "probe", "aborted"} /\ args.hardlink_selects
            /\ ~can_use_hardlinks) =>
          /\ probes = 1
          /\ hashed = <<>>
          /\ \A i \in DOMAIN ops : ops[i].op # "link"
          /\ \A i \in DOMAIN ops : ops[i].op = "unlink" => Sweepable(ops[i].path)
          /\ \A i \in DOMAIN log : log[i].op \notin {"link", "warn"}
          /\ \A P \in Returned :
                /\ "hardlink_select_files" \notin StagesOf(P)
                /\ "end" \in StagesOf(P) =>
                      /\ args.remove_dotfiles <=> "remove_dot_files" \in StagesOf(P)
                      /\ args.remove_edits <=> "remove_edit_files" \in StagesOf(P)
                      /\ args.fix_permissions <=> "set_files_permissions" \in StagesOf(P)
          /\ pc = "done" => \A P \in Returned : "end" \in StagesOf(P)

\* C10 witness: a run with deduplication asked for is over, the probe found
\* no hardlink support, and a select with an equal raw original was swept
\* around and had its mode set, but is still a separate copy
C10_Witness ==
    /\ pc = "done"
    /\ args.hardlink_selects
    /\ ~can_use_hardlinks
    /\ probes = 1
    /\ \E i, j \in DOMAIN ops : ops[i].op = "unlink" /\ ops[j].op = "chmod"
    /\ \E P \in Returned : \E x \in Pairs(Now, P) :
         /\ ContentAt(Now, x) = ContentAt(Now, RawCandidate(P, x))
         /\ tree[x].ino # tree[RawCandidate(P, x)].ino

\* C11: a step of a stage of a project, whether its file operation succeeds
\* or fails, leaves the run at work on the projects or finished: a failing
\* delete, hash read, unlink, link or chmod is reported and the run goes on to
\* the remaining entries and the remaining projects and reaches Done.
C11_FailureIsolation ==
    [][(pc \in StagePcs) => (pc' \in (StagePcs \cup {"done"}))]_vars

\* C12: a run on a library path that is not a directory ends with a non-zero
\* exit status before the probe, before project location and with the file
\* system untouched, and no other run ends that way; a run on a directory that
\* comes to its end has processed every project the locator returned, each
\* with the stages its flags ask for, and exits with status zero.
C12_RootPrecondition ==
    /\ pc # "main" => (pc = "aborted" <=> ~IsDir(fs0.tree, <<>>))
    /\ pc = "aborted" =>
          /\ Exited /\ ExitStatus # 0
          /\ probes = 0
          /\ projects = <<>> /\ stages = <<>>
          /\ log = <<>> /\ ops = <<>> /\ hashed = <<>>
          /\ Now = fs0
    /\ pc = "done" =>
          /\ Exited /\ ExitStatus = 0
          /\ IsDir(fs0.tree, <<>>)
          /\ \A P \in Returned :
                /\ {"begin", "end"} \subseteq StagesOf(P)
                /\ args.remove_dotfiles <=> "remove_dot_files" \in StagesOf(P)
                /\ args.remove_edits <=> "remove_edit_files" \in StagesOf(P)
                /\ args.fix_permissions <=> "set_files_permissions" \in StagesOf(P)

\* C12 witness: a run on a directory is over with status zero, it warned about
\* a select that differs from its raw original, and it went through two
\* projects
C12_Witness ==
    /\ pc = "done"
    /\ ExitStatus = 0
    /\ \E i \in DOMAIN log : log[i].op = "warn"
    /\ Cardinality(Returned) = 2
    /\ \A P \in Returned : "end" \in StagesOf(P)

\* a directory with an immediate subdirectory named 0_RAW, 1_EDIT or 2_EXPORT
HasMarker(t, D) ==
    /\ IsDir(t, D)
    /\ \/ IsDir(t, Join(D, PROJECT_RAW_SUBDIR))
       \/ IsDir(t, Join(D, PROJECT_EDIT_SUBDIR))
       \/ IsDir(t, Join(D, PROJECT_EXPORT_SUBDIR))

\* the topmost directories with a marker
TopmostMarked(t) ==
    {D \in DOMAIN t :
        HasMarker(t, D) /\ \A A \in DOMAIN t : IsAncestor(A, D) => ~HasMarker(t, A)}

\* C13: whatever the tree, find_projects returns exactly the directories at
\* or below the root that have an immediate subdirectory named 0_RAW, 1_EDIT
\* or 2_EXPORT and no proper ancestor with one, each of them once; nothing
\* below a project is returned, and directories without subdirectories and
\* without marker add nothing.
C13_LocatorExact ==
    pc = "project" =>
        /\ Returned = TopmostMarked(tree)
        /\ Len(projects) = Cardinality(Returned)

\* C13 witness: the locator has returned from a tree with a project that is
\* not the root and holds a marked directory further down, next to an empty
\* directory without marker, and it returned the one project
C13_Witness ==
    /\ pc = "project"
    /\ \E D \in Returned :
         /\ D # <<>>
         /\ \E e \in DOMAIN tree : IsAncestor(D, e) /\ HasMarker(tree, e)
    /\ \E q \in DOMAIN tree :
         /\ IsDir(tree, q)
         /\ Scandir(tree, q) = {}
         /\ Name(q) \in {NameP, NameQ}
         /\ \A D \in Returned : ~IsAncestor(D, q)
    /\ Len(projects) = 1

\* the place of a stage in cleanup_project
StageRank(name) ==
    CASE name = "begin" -> 0
      [] name = "remove_dot_files" -> 1
      [] name = "remove_edit_files" -> 2
      [] name = "hardlink_select_files" -> 3
      [] name = "set_files_permissions" -> 4
      [] OTHER -> 5

\* the place of a project in the list the locator returned
ProjectIndex(P) == CHOOSE k \in DOMAIN projects : projects[k] = P

\* the stage calls so far are those of the located projects, project after
\* project in the locator's order, a project beginning only when the one
\* before has ended, and within a project in the order sweep of dot files,
\* sweep of 1_EDIT, dedup, permissions
StagesOrdered ==
    /\ \A i \in DOMAIN stages : stages[i].project \in Returned
    /\ \A i \in DOMAIN stages :
          (stages[i].stage = "begin" /\ i > 1) => stages[i - 1].stage = "end"
    /\ \A i, j \in DOMAIN stages :
          i < j =>
             IF stages[i].project = stages[j].project
             THEN StageRank(stages[i].stage) < StageRank(stages[j].stage)
             ELSE ProjectIndex(stages[i].project) < ProjectIndex(stages[j].project)

\* the stages whose code performs the operation
StagesOfOp(op) ==
    CASE op = "chmod" -> {"set_files_permissions"}
      [] op = "link" -> {"hardlink_select_files"}
      [] op = "rmtree" -> {"remove_edit_files"}
      [] OTHER -> {"remove_dot_files", "remove_edit_files", "hardlink_select_files"}

\* a step that performs a file operation performs it on a path of the project
\* whose stage call is the latest, and it is an operation of that stage
OpInItsStage ==
    Len(ops') > Len(ops) =>
        /\ Len(ops') = Len(ops) + 1
        /\ stages # <<>>
        /\ stages' = stages
        /\ LET o == ops'[Len(ops')]
               s == stages[Len(stages)]
           IN  /\ s.project = cur
               /\ IsAncestor(cur, o.path)
               /\ s.stage \in StagesOfOp(o.op)

\* C14: within a project the stages are called in the order sweep (dot files,
\* then 1_EDIT), dedup, permissions, and each file operation is performed
\* during its own stage's call, so that every sweep operation precedes every
\* dedup operation and every dedup operation every permission operation of
\* the project; a project begins only after the one before has ended, and
\* every operation is on a path of the one project being cleaned.
C14_StageOrdering ==
    [][OpInItsStage /\ StagesOrdered']_vars

\* C14 witness: a run with dry-run off is over that swept, deduplicated and
\* set modes in one project and deduplicated and set modes in the next
C14_Witness ==
    /\ pc = "done"
    /\ Len(projects) = 2
    /\ \E i, j, k, l \in DOMAIN ops :
         /\ i < j /\ j < k /\ k < l
         /\ ops[i].op \in {"unlink", "rmtree"}
         /\ Sweepable(ops[i].path)
         /\ IsAncestor(projects[1], ops[i].path)
         /\ ops[j].op = "link"
         /\ IsAncestor(projects[1], ops[j].path)
         /\ ops[k].op = "chmod"
         /\ IsAncestor(projects[1], ops[k].path)
         /\ ops[l].op = "link"
         /\ IsAncestor(projects[2], ops[l].path)
    /\ ops[Len(ops)].op = "chmod"
    /\ IsAncestor(projects[2], ops[Len(ops)].path)

\* a root file is one more name of a file directly inside the project's 0_RAW
SharesRawStorage(P, x) ==
    \E r \in Scandir(tree, Join(P, PROJECT_RAW_SUBDIR)) :
        tree[r].kind = "file" /\ tree[r].ino = tree[x].ino

\* C15: with deduplication enabled and hardlinks supported, the permission
\* pass of a project prints no mode change and performs none for a root file
\* that shares storage with a file of the project's 0_RAW, with dry-run on as
\* with dry-run off.
C15_DedupRootSkipped ==
    (HardlinkSelects(args, can_use_hardlinks) /\ pc \in {"perms_raw", "perms_root"}) =>
        \A x \in RootFiles(cur) :
            SharesRawStorage(cur, x) =>
                /\ LogOn(x, "chmod") = {}
                /\ OpsOn(x, {"chmod"}) = {}

\* the entries of a project, as the run found them, that the operations
\* performed so far removed
Removed(P) ==
    {p \in DOMAIN fs0.tree :
        /\ IsAncestor(P, p)
        /\ \E i \in DOMAIN ops :
              \/ ops[i].op \in {"unlink", "rmtree"} /\ ops[i].path = p
              \/ ops[i].op = "rmtree" /\ IsAncestor(ops[i].path, p)}

\* the files named "._*" at any depth under a project, as the run found them
DotFilesUnder(P) ==
    {p \in DOMAIN fs0.tree :
        /\ IsAncestor(P, p)
        /\ fs0.tree[p].kind \in {"file", "symlink"}
        /\ Len(Name(p)) >= 2 /\ Name(p)[1] = "." /\ Name(p)[2] = "_"}

\* everything inside a project's 1_EDIT, as the run found it
InsideEdit(P) ==
    {p \in DOMAIN fs0.tree : IsAncestor(Join(P, PROJECT_EDIT_SUBDIR), p)}

\* the two sweeps of the project being cleaned have returned, the first
\* project of a run, so that every operation so far is one of its sweeps
SweepsOver ==
    /\ pc = "edits"
    /\ todo = {}
    /\ projects # <<>>
    /\ cur = projects[1]
    /\ Len(rest) = Len(projects) - 1

\* C16: with dry-run off and no operation failing, when the sweeps of a
\* project have returned the entries they removed are exactly the files
\* named "._*" at any depth under the project when remove-hidden-files is on,
\* together with everything inside 1_EDIT when remove-edit-stage-contents is
\* on; these are gone and nothing else of the project is, and a 1_EDIT
\* directory is still there, empty when its contents were to be removed.
C16_ExactDeletionSet ==
    (SweepsOver /\ ~args.dry_run) =>
        LET edit == Join(cur, PROJECT_EDIT_SUBDIR)
            expected == (IF args.remove_dotfiles THEN DotFilesUnder(cur) ELSE {})
                           \cup (IF args.remove_edits THEN InsideEdit(cur) ELSE {})
        IN  /\ Removed(cur) = expected
            /\ \A p \in expected : ~Exists(tree, p)
            /\ IsDir(fs0.tree, edit) => IsDir(tree, edit)
            /\ (IsDir(fs0.tree, edit) /\ args.remove_edits) => Scandir(tree, edit) = {}

\* C17: when are_hardlinks_supported has returned, whatever it answers, the
\* library root has exactly the entries it had before the call, entries named
\* .dummy.dat or .dummy.dat.link included, and every file among them has the
\* content it had.
C17_ProbeLeavesRootAsFound ==
    (pc = "locate" /\ probes = 1) =>
        /\ Scandir(tree, <<>>) = Scandir(fs0.tree, <<>>)
        /\ \A p \in Scandir(fs0.tree, <<>>) :
              /\ tree[p] = fs0.tree[p]
              /\ fs0.tree[p].kind = "file" => ContentAt(Now, p) = ContentAt(fs0, p)

====
